---- MODULE Spec2Model ----
(***************************************************************************)
(* Room synchronisation of the collaborative canvas: the Redis-backed      *)
(* route handlers (GET = join + event stream, stream cancel = leave,       *)
(* POST = drawing events), the Redis key that stores a room, the Pub/Sub   *)
(* channel that fans events out to the sessions' streams, and the client   *)
(* hook that sends requests and reduces the events of its stream.          *)
(*                                                                         *)
(* Every handler is cut at its awaits on Redis: one step for getRoom and   *)
(* the synchronous code after it, one for saveRoom, one for publish (and   *)
(* subscribe / unsubscribe), so that handlers of concurrent requests       *)
(* interleave exactly where the code lets them.                            *)
(***************************************************************************)
EXTENDS Integers, Sequences, FiniteSets, TLC

VARIABLES
    store,      \* Redis: room id -> the saved room, or NoData
    reqs,       \* requests in flight: request number -> handler record
    sent,       \* requests each client has sent so far (numbers them, feeds ids)
    sessions,   \* event streams: session id -> [userId, roomId, subscribed, open, stream]
    client,     \* hook state and refs of each client
    hist        \* the last handled requests with the stored room after each

vars == <<store, reqs, sent, sessions, client, hist>>

(* Bounds and input sets *)

MaxReqs == 5         \* requests sent in a behaviour of SpecSeq
MaxSent == 3         \* requests one client sends in a behaviour of Spec
MaxOps == 2          \* operations stored at the start of a behaviour of SpecUndo
MaxDrawn == 3        \* points of one stroke in a behaviour of SpecDraw
MaxPoints == 2       \* points a client puts in one stroke

Users == {"u1", "u2"}
Rooms == {"r1", "r2"}
JoinRooms == {"r1"}  \* rooms the clients of Spec and SpecSeq connect to
PointSet == {"p1"}
Widths == {4}
CursorPos == {<<1, 1>>}

(* Program constants *)

MemberCap == 100
SliceLimit == 20
MinPointsToSend == 2
DefaultWidth == 4
MinWidth == 1
MaxWidth == 100
OperationCap == 500   \* "Keeps last 500 operations in history"

(* Values *)

NoData == [nil |-> TRUE]
NoStroke == [nil |-> TRUE]
EmptyMap == [x \in {} |-> x]

Put(f, k, v) == [x \in (DOMAIN f) \cup {k} |-> IF x = k THEN v ELSE f[x]]
Del(f, k) == [x \in (DOMAIN f) \ {k} |-> f[x]]
Min(a, b) == IF a < b THEN a ELSE b
Max(a, b) == IF a > b THEN a ELSE b
Front(s) == SubSeq(s, 1, Len(s) - 1)
Last(s) == s[Len(s)]

\* JSON booleans as they travel in payloads; a field a payload lacks reads "undefined"
Flag(b) == IF b THEN "true" ELSE "false"
Has(p, f) == f \in DOMAIN p
Field(p, f, dflt) == IF Has(p, f) THEN p[f] ELSE dflt

RoomState(strokes, operations, redoStack, users, cursors) ==
    [strokes |-> strokes, operations |-> operations, redoStack |-> redoStack,
     users |-> users, cursors |-> cursors]

Stroke(id, userId, points, width) ==
    [id |-> id, userId |-> userId, points |-> points, width |-> width]

Operation(id, stroke, userId) ==
    [id |-> id, type |-> "stroke_add", stroke |-> stroke, userId |-> userId]

UserCursor(userId, pos, isDrawing) ==
    [userId |-> userId, x |-> pos[1], y |-> pos[2], isDrawing |-> isDrawing]

WSMessage(type, roomId, userId, payload) ==
    [type |-> type, roomId |-> roomId, userId |-> userId, payload |-> payload]

(* Redis *)

\* getRoom: the saved room, or a fresh empty room when the key holds nothing
getRoom(roomId) ==
    IF store[roomId] = NoData
    THEN RoomState(<<>>, <<>>, <<>>, {}, EmptyMap)
    ELSE store[roomId]

\* A store with one key for all rooms
saveRoomSharedKey(roomId, room) == store' = [r \in DOMAIN store |-> room]

\* saveRoom: the whole room overwrites the key
saveRoom(roomId, room) == store' = [store EXCEPT ![roomId] = room]

\* Pub/Sub that skips the sessions of the member who sent the request
DeliverToOthers(ss, roomId, message) ==
    [s \in DOMAIN ss |->
        IF ss[s].roomId = roomId /\ ss[s].subscribed /\ ss[s].open
           /\ ss[s].userId # message.userId
        THEN [ss[s] EXCEPT !.stream = Append(@, message)]
        ELSE ss[s]]

\* Pub/Sub in which the error of one stream's enqueue escapes the callback and
\* stops the dispatch of the message
DeliverUnlessBroken(ss, roomId, message) ==
    IF \E s \in DOMAIN ss :
          ss[s].roomId = roomId /\ ss[s].subscribed /\ ~ss[s].open
    THEN ss
    ELSE [s \in DOMAIN ss |->
            IF ss[s].roomId = roomId /\ ss[s].subscribed
            THEN [ss[s] EXCEPT !.stream = Append(@, message)]
            ELSE ss[s]]

\* Pub/Sub: a published message is enqueued on the stream of every session
\* subscribed to the room's channel at that moment; on a stream its client has
\* closed, controller.enqueue throws and the subscriber's callback catches it
Deliver(ss, roomId, message) ==
    [s \in DOMAIN ss |->
        IF ss[s].roomId = roomId /\ ss[s].subscribed /\ ss[s].open
        THEN [ss[s] EXCEPT !.stream = Append(@, message)]
        ELSE ss[s]]

broadcastToRoom(roomId, message) == sessions' = Deliver(sessions, roomId, message)


(* Handlers: the synchronous code that follows getRoom *)

\* Math.max(1, Math.min(100, width || 4))
validWidth(width) ==
    Max(MinWidth, Min(MaxWidth, IF width = 0 THEN DefaultWidth ELSE width))

\* points.slice(0, 20)
slice(points) == SubSeq(points, 1, Min(Len(points), SliceLimit))

\* stroke_end: push the stroke, push its stroke_add operation, reset the redo stack
strokeEnd(room, stroke, operation) ==
    [room EXCEPT !.strokes = Append(@, stroke),
                 !.operations = Append(@, operation),
                 !.redoStack = <<>>]

\* undo that pushes the last operation on the redo stack and leaves it in the log
undoLeavesLog(room) ==
    [room EXCEPT !.redoStack = Append(@, Last(room.operations))]

\* undo that pops the last operation and pushes nothing on the redo stack
undoDropsOperation(room) == [room EXCEPT !.operations = Front(@)]

\* undo: operations.pop() goes onto redoStack; strokes are not touched
undo(room) ==
    [room EXCEPT !.operations = Front(@),
                 !.redoStack = Append(@, Last(room.operations))]

\* redo that pops the redo stack and forgets to push the operation back
redoLosesOperation(room) == [room EXCEPT !.redoStack = Front(@)]

\* redo: redoStack.pop() goes back onto operations; strokes are not touched
redo(room) ==
    [room EXCEPT !.redoStack = Front(@),
                 !.operations = Append(@, Last(room.redoStack))]

\* clear: strokes, operations and redoStack all become empty
clear(room) ==
    [room EXCEPT !.strokes = <<>>, !.operations = <<>>, !.redoStack = <<>>]

\* cursor_move: the cursor is set on the handler's copy of the room
cursorMove(room, userId, pos, isDrawing) ==
    [room EXCEPT !.cursors = Put(@, userId, UserCursor(userId, pos, isDrawing))]

\* What POST does between getRoom and its next await, for a member's message:
\* the handler's copy of the room, the event it will publish, and whether it
\* saves first ("save"), publishes at once ("publish") or returns ("done").
Outcome(pc, room, ev) == [pc |-> pc, room |-> room, ev |-> ev]

\* case 'undo' without its guard: an undo event goes out even when the log is
\* empty
caseUndoUnguarded(roomId, userId, room) ==
    Outcome("publish", room,
        WSMessage("undo", roomId, userId,
            [canUndo |-> Flag(Len(room.operations) > 1), canRedo |-> "true"]))

\* case 'undo': if (room.operations.length > 0) { pop, push, save, broadcast }
caseUndo(roomId, userId, room) ==
    IF Len(room.operations) > 0
    THEN Outcome("save", undo(room),
            WSMessage("undo", roomId, userId,
                [operation |-> Last(room.operations),
                 canUndo |-> Flag(Len(undo(room).operations) > 0),
                 canRedo |-> "true"]))
    ELSE Outcome("done", room, NoData)

POSTswitch(n, type, roomId, userId, payload, room) ==
    CASE type = "stroke_start" ->
            Outcome("publish", room,
                WSMessage("stroke_start", roomId, userId,
                    Stroke(payload.strokeId, userId, <<payload.point>>,
                           validWidth(payload.width))))
      [] type = "stroke_update" ->
            IF Len(payload.points) = 0
            THEN Outcome("done", room, NoData)
            ELSE Outcome("publish", room,
                    WSMessage("stroke_update", roomId, userId,
                        [strokeId |-> payload.strokeId,
                         points |-> slice(payload.points),
                         endPoint |-> payload.endPoint]))
      [] type = "stroke_end" ->
            LET operation == Operation(n, payload.stroke, userId)
            IN  Outcome("save", strokeEnd(room, payload.stroke, operation),
                    WSMessage("stroke_end", roomId, userId,
                        [strokeId |-> payload.strokeId, stroke |-> payload.stroke,
                         operation |-> operation,
                         canUndo |-> "true", canRedo |-> "false"]))
      [] type = "cursor_move" ->
            Outcome("publish",
                cursorMove(room, userId, payload.pos, payload.isDrawing),
                WSMessage("cursor_move", roomId, userId,
                    UserCursor(userId, payload.pos, payload.isDrawing)))
      [] type = "undo" -> caseUndo(roomId, userId, room)
      [] type = "redo" ->
            IF Len(room.redoStack) > 0
            THEN Outcome("save", redo(room),
                    WSMessage("redo", roomId, userId,
                        [operation |-> Last(room.redoStack),
                         canUndo |-> "true",
                         canRedo |-> Flag(Len(redo(room).redoStack) > 0)]))
            ELSE Outcome("done", room, NoData)
      [] type = "clear" ->
            Outcome("save", clear(room),
                WSMessage("clear", roomId, userId, EmptyMap))
      [] type = "notification" ->
            Outcome("publish", room,
                WSMessage("notification", roomId, userId, payload))
      [] OTHER -> Outcome("done", room, NoData)

\* A request in flight and the state of its handler
Request(kind, type, roomId, userId, payload) ==
    [kind |-> kind, type |-> type, roomId |-> roomId, userId |-> userId,
     payload |-> payload, pc |-> "sent", room |-> NoData, ev |-> NoData]

Running(n) == n \in DOMAIN reqs /\ reqs[n].pc # "sent"

(* POST *)

\* A membership check that lets every sender through
userAlwaysFound(room, userId) == TRUE

\* const user = room.users.get(userId); if (!user): 'User not found in room'
userFound(room, userId) == userId \in room.users

\* if (!roomId || !userId || !type): 'Missing required fields'
missingFields(r) == r.roomId = "" \/ r.userId = "" \/ r.type = ""

\* POST up to its first await after getRoom: 400 for a message with a field
\* missing, 401 for a non-member, else the switch
POSTgetRoom(n) ==
    /\ n \in DOMAIN reqs
    /\ reqs[n].kind = "POST"
    /\ reqs[n].pc = "sent"
    /\ LET r == reqs[n]
           room == getRoom(r.roomId)
           out == POSTswitch(n, r.type, r.roomId, r.userId, r.payload, room)
       IN  IF missingFields(r)
           THEN reqs' = Del(reqs, n)
           ELSE IF ~userFound(room, r.userId) \/ out.pc = "done"
           THEN reqs' = Del(reqs, n)
           ELSE reqs' = [reqs EXCEPT ![n].pc = out.pc, ![n].room = out.room,
                                     ![n].ev = out.ev]
    /\ UNCHANGED <<store, sent, sessions, client>>

\* await saveRoom(roomId, room)
POSTsaveRoom(n) ==
    /\ n \in DOMAIN reqs
    /\ reqs[n].kind = "POST"
    /\ reqs[n].pc = "save"
    /\ saveRoom(reqs[n].roomId, reqs[n].room)
    /\ reqs' = [reqs EXCEPT ![n].pc = "publish"]
    /\ UNCHANGED <<sent, sessions, client>>

\* await saveRoom(roomId, room) when redis.setEx throws: saveRoom catches the
\* error and logs it, nothing is stored and the handler goes on
POSTsaveRoomFails(n) ==
    /\ n \in DOMAIN reqs
    /\ reqs[n].kind = "POST"
    /\ reqs[n].pc = "save"
    /\ reqs' = [reqs EXCEPT ![n].pc = "publish"]
    /\ UNCHANGED <<store, sent, sessions, client>>

\* await broadcastToRoom(roomId, {...}); return { success: true }
POSTbroadcast(n) ==
    /\ n \in DOMAIN reqs
    /\ reqs[n].kind = "POST"
    /\ reqs[n].pc = "publish"
    /\ broadcastToRoom(reqs[n].roomId, reqs[n].ev)
    /\ reqs' = Del(reqs, n)
    /\ UNCHANGED <<store, sent, client>>

(* GET: join, sync_state, subscription *)

syncMessage(roomId, userId, room) ==
    WSMessage("sync_state", roomId, userId,
        [strokes |-> room.strokes, users |-> room.users,
         cursors |-> room.cursors, yourUser |-> userId,
         operations |-> room.operations,
         canUndo |-> Flag(Len(room.operations) > 0),
         canRedo |-> Flag(Len(room.redoStack) > 0)])

\* A room limit that lets one member too many in
roomFullOffByOne(room) == Cardinality(room.users) > MemberCap

\* A room limit that is never reached
roomNeverFull(room) == FALSE

\* if (room.users.size >= 100): 'Room is full'
roomFull(room) == Cardinality(room.users) >= MemberCap

\* getRoom when redis.get or JSON.parse throws: the error is caught and logged,
\* and the function returns a new, empty room
getRoomFails ==
    RoomState(<<>>, <<>>, <<>>, {}, EmptyMap)

\* GET from the room that getRoom returned: the room limit,
\* room.users.set(userId, user)
GETwith(n, room) ==
    /\ n \in DOMAIN reqs
    /\ reqs[n].kind = "GET"
    /\ reqs[n].pc = "sent"
    /\ LET r == reqs[n]
       IN  IF roomFull(room)
           THEN reqs' = Del(reqs, n)
           ELSE reqs' = [reqs EXCEPT ![n].pc = "save",
                            ![n].room = [room EXCEPT !.users = @ \cup {r.userId}]]
    /\ UNCHANGED <<store, sent, sessions, client>>

\* getRoom, the room limit, room.users.set(userId, user)
GETgetRoom(n) == n \in DOMAIN reqs /\ GETwith(n, getRoom(reqs[n].roomId))

\* the same when the read of the room fails
GETgetRoomFails(n) == GETwith(n, getRoomFails)

\* await saveRoom(roomId, room)
GETsaveRoom(n) ==
    /\ n \in DOMAIN reqs
    /\ reqs[n].kind = "GET"
    /\ reqs[n].pc = "save"
    /\ saveRoom(reqs[n].roomId, reqs[n].room)
    /\ reqs' = [reqs EXCEPT ![n].pc = "start"]
    /\ UNCHANGED <<sent, sessions, client>>

\* start(controller) that subscribes first: the session gets its own
\* user_joined ahead of its sync_state
GETstartSubscribedFirst(n) ==
    /\ n \in DOMAIN reqs
    /\ reqs[n].kind = "GET"
    /\ reqs[n].pc = "start"
    /\ LET r == reqs[n]
           joined == WSMessage("user_joined", r.roomId, r.userId,
                               [user |-> r.userId])
           session == [userId |-> r.userId, roomId |-> r.roomId,
                       subscribed |-> FALSE, open |-> TRUE,
                       stream |-> <<joined,
                                    syncMessage(r.roomId, r.userId, r.room)>>]
       IN  sessions' = Put(Deliver(sessions, r.roomId, joined), n, session)
    /\ reqs' = [reqs EXCEPT ![n].pc = "subscribe"]
    /\ UNCHANGED <<store, sent, client>>

\* start(controller): enqueue sync_state built from the handler's copy of the
\* room, then publish user_joined (the new session is not subscribed yet)
GETstart(n) ==
    /\ n \in DOMAIN reqs
    /\ reqs[n].kind = "GET"
    /\ reqs[n].pc = "start"
    /\ LET r == reqs[n]
           session == [userId |-> r.userId, roomId |-> r.roomId,
                       subscribed |-> FALSE, open |-> TRUE,
                       stream |-> <<syncMessage(r.roomId, r.userId, r.room)>>]
       IN  sessions' = Put(Deliver(sessions, r.roomId,
                               WSMessage("user_joined", r.roomId, r.userId,
                                         [user |-> r.userId])),
                           n, session)
    /\ reqs' = [reqs EXCEPT ![n].pc = "subscribe"]
    /\ UNCHANGED <<store, sent, client>>

\* await subscriber.subscribe(channel, message => controller.enqueue(message))
GETsubscribe(n) ==
    /\ n \in DOMAIN reqs
    /\ reqs[n].kind = "GET"
    /\ reqs[n].pc = "subscribe"
    /\ sessions' = [sessions EXCEPT ![n].subscribed = TRUE]
    /\ reqs' = Del(reqs, n)
    /\ UNCHANGED <<store, sent, client>>

(* cancel: the stream of a session was closed by its client *)

\* getRoom, users.delete, cursors.delete
cancelGetRoom(n) ==
    /\ n \in DOMAIN reqs
    /\ reqs[n].kind = "cancel"
    /\ reqs[n].pc = "sent"
    /\ LET r == reqs[n]
           room == getRoom(r.roomId)
       IN  reqs' = [reqs EXCEPT ![n].pc = "save",
                        ![n].room = [room EXCEPT !.users = @ \ {r.userId},
                                                 !.cursors = Del(@, r.userId)]]
    /\ UNCHANGED <<store, sent, sessions, client>>

\* await saveRoom(roomId, room)
cancelSaveRoom(n) ==
    /\ n \in DOMAIN reqs
    /\ reqs[n].kind = "cancel"
    /\ reqs[n].pc = "save"
    /\ saveRoom(reqs[n].roomId, reqs[n].room)
    /\ reqs' = [reqs EXCEPT ![n].pc = "unsubscribe"]
    /\ UNCHANGED <<sent, sessions, client>>

\* await subscriber.unsubscribe(); await subscriber.disconnect()
cancelUnsubscribe(n) ==
    /\ n \in DOMAIN reqs
    /\ reqs[n].kind = "cancel"
    /\ reqs[n].pc = "unsubscribe"
    /\ sessions' = Del(sessions, reqs[n].payload.session)
    /\ reqs' = [reqs EXCEPT ![n].pc = "publish"]
    /\ UNCHANGED <<store, sent, client>>

\* await broadcastToRoom(roomId, user_left)
cancelBroadcast(n) ==
    /\ n \in DOMAIN reqs
    /\ reqs[n].kind = "cancel"
    /\ reqs[n].pc = "publish"
    /\ broadcastToRoom(reqs[n].roomId,
           WSMessage("user_left", reqs[n].roomId, reqs[n].userId,
                     [userId |-> reqs[n].userId]))
    /\ reqs' = Del(reqs, n)
    /\ UNCHANGED <<store, sent, client>>

(* The client hook: useCollaborativeCanvas *)

\* generateId(): unique; here the k-th id a client draws is <<client, k>>, and
\* a request is numbered like the id drawn when it is sent
Id(u, k) == <<u, k>>
NoId == <<"", 0>>
NextId(u) == Id(u, sent[u] + 1)
Count(u, k) == sent' = [sent EXCEPT ![u] = @ + k]

RECURSIVE Total(_, _)
Total(f, S) ==
    IF S = {} THEN 0
    ELSE LET x == CHOOSE y \in S : TRUE IN f[x] + Total(f, S \ {x})

\* requests sent so far by all clients
nreq == Total(sent, Users)

\* useState / useRef initial values
HookState ==
    [roomId |-> "", eventSource |-> NoId, handled |-> 0,
     strokes |-> <<>>, activeStrokes |-> EmptyMap, operations |-> <<>>,
     canUndo |-> "false", canRedo |-> "false",
     users |-> {}, cursors |-> EmptyMap, currentUser |-> "",
     currentStroke |-> NoStroke, pointBatch |-> <<>>, batchTimeout |-> FALSE]

\* handleMessage: the reducer applied to every event of the stream
\* case 'stroke_update' that starts an active stroke for an id it does not know
caseStrokeUpdateUnguarded(prev, payload) ==
    IF payload.strokeId \in DOMAIN prev.activeStrokes
    THEN [prev EXCEPT !.activeStrokes[payload.strokeId].points =
                            @ \o payload.points]
    ELSE [prev EXCEPT !.activeStrokes =
                 Put(@, payload.strokeId,
                     Stroke(payload.strokeId, "", payload.points, DefaultWidth))]

\* case 'stroke_update': const stroke = newActiveStrokes.get(strokeId);
\* if (stroke) { the points are appended }
caseStrokeUpdate(prev, payload) ==
    IF payload.strokeId \in DOMAIN prev.activeStrokes
    THEN [prev EXCEPT !.activeStrokes[payload.strokeId].points =
                            @ \o payload.points]
    ELSE prev

handleMessage(prev, myUserId, message) ==
    LET type == message.type
        payload == message.payload
    IN  CASE type = "sync_state" ->
                [prev EXCEPT !.strokes = payload.strokes,
                             !.users = payload.users,
                             !.cursors = payload.cursors,
                             !.currentUser = payload.yourUser,
                             !.operations = Field(payload, "operations", <<>>),
                             !.canUndo = Field(payload, "canUndo", "false"),
                             !.canRedo = Field(payload, "canRedo", "false")]
          [] type = "stroke_start" ->
                [prev EXCEPT !.activeStrokes = Put(@, payload.id, payload)]
          [] type = "stroke_update" -> caseStrokeUpdate(prev, payload)
          [] type = "stroke_end" ->
                [prev EXCEPT !.activeStrokes = Del(@, payload.strokeId),
                             !.strokes = Append(@, payload.stroke),
                             !.operations =
                                 IF Has(payload, "operation")
                                 THEN Append(@, payload.operation) ELSE @,
                             !.canUndo = Field(payload, "canUndo", "true"),
                             !.canRedo = Field(payload, "canRedo", "false")]
          [] type = "cursor_move" ->
                IF payload.userId # myUserId
                THEN [prev EXCEPT !.cursors = Put(@, payload.userId, payload)]
                ELSE prev
          [] type = "user_joined" ->
                [prev EXCEPT !.users = @ \cup {payload.user}]
          [] type = "user_left" ->
                [prev EXCEPT !.users = @ \ {payload.userId},
                             !.cursors = Del(@, payload.userId)]
          [] type = "undo" ->
                [prev EXCEPT !.strokes = Field(payload, "strokes", @),
                             !.operations = Front(@),
                             !.canUndo = payload.canUndo,
                             !.canRedo = payload.canRedo]
          [] type = "redo" ->
                [prev EXCEPT !.strokes = Field(payload, "strokes", @),
                             !.operations = Append(@, payload.operation),
                             !.canUndo = payload.canUndo,
                             !.canRedo = payload.canRedo]
          [] type = "clear" ->
                [prev EXCEPT !.strokes = <<>>,
                             !.activeStrokes = EmptyMap,
                             !.canUndo = Field(payload, "canUndo", "undefined"),
                             !.canRedo = Field(payload, "canRedo", "undefined")]
          [] type = "notification" -> prev

\* sendMessage: fetch('/api/ws', POST); the request travels on its own
sendMessage(rs, n, c, userId, type, payload) ==
    Put(rs, n, Request("POST", type, c.roomId, userId, payload))

\* The canvas is shown and used once the hook holds its sync_state
Ready(u) == client[u].currentUser # ""

\* useEffect connect(): new EventSource(url), that is a GET of the route
connect(u, roomId) ==
    /\ client[u].eventSource = NoId
    /\ client[u].roomId \in {"", roomId}
    /\ Count(u, 1)
    /\ reqs' = Put(reqs, NextId(u), Request("GET", "join", roomId, u, EmptyMap))
    /\ client' = [client EXCEPT ![u].eventSource = NextId(u),
                                ![u].handled = 0,
                                ![u].roomId = roomId]
    /\ UNCHANGED <<store, sessions>>

\* eventSource.onmessage: the next event of the stream goes through handleMessage
onmessage(u) ==
    /\ client[u].eventSource \in DOMAIN sessions
    /\ client[u].handled < Len(sessions[client[u].eventSource].stream)
    /\ client' = [client EXCEPT ![u] =
          [handleMessage(client[u], u,
               sessions[client[u].eventSource].stream[client[u].handled + 1])
           EXCEPT !.handled = @ + 1]]
    /\ UNCHANGED <<store, reqs, sent, sessions>>

\* eventSource.close(): the server runs the stream's cancel()
close(u) ==
    /\ client[u].eventSource \in DOMAIN sessions
    /\ client[u].eventSource \notin DOMAIN reqs
    /\ Count(u, 1)
    /\ reqs' = Put(reqs, NextId(u),
                   Request("cancel", "leave", client[u].roomId, u,
                           [session |-> client[u].eventSource]))
    /\ client' = [client EXCEPT ![u].eventSource = NoId]
    /\ sessions' = [sessions EXCEPT ![client[u].eventSource].open = FALSE]
    /\ UNCHANGED store

\* startStroke: the stroke becomes current and active at once, stroke_start is sent
startStrokeOf(u, stroke, point, width) ==
    /\ Ready(u)
    /\ client[u].currentStroke = NoStroke
    /\ LET strokeId == NextId(u)
       IN  /\ client' = [client EXCEPT ![u].currentStroke = stroke,
                                       ![u].activeStrokes = Put(@, strokeId, stroke)]
           /\ reqs' = sendMessage(reqs, NextId(u), client[u], u, "stroke_start",
                          [strokeId |-> strokeId, point |-> point, width |-> width])
    /\ Count(u, 1)
    /\ UNCHANGED <<store, sessions>>

startStroke(u, point, width) ==
    startStrokeOf(u, Stroke(NextId(u), u, <<point>>, width), point, width)

\* startStroke with the stroke's field timestamp: Date.now(), the reading of
\* the client's clock
startStrokeAt(u, point, width, now) ==
    startStrokeOf(u, Stroke(NextId(u), u, <<point>>, width) @@ [timestamp |-> now],
                  point, width)

\* flushPointBatch: the batched points go out as one stroke_update
flushPointBatch(rs, n, c, u) ==
    IF Len(c.pointBatch) > 0 /\ c.currentStroke # NoStroke
    THEN sendMessage(rs, n, c, u, "stroke_update",
             [strokeId |-> c.currentStroke.id, points |-> c.pointBatch,
              endPoint |-> Last(c.pointBatch)])
    ELSE rs

Flushes(c) == Len(c.pointBatch) > 0 /\ c.currentStroke # NoStroke

\* updateStroke (brush): the point joins the active stroke, the current stroke
\* and the batch; the batch is flushed at MIN_POINTS_TO_SEND, else a timer is set
updateStrokeUpTo(u, point, max) ==
    /\ client[u].currentStroke # NoStroke
    /\ Len(client[u].currentStroke.points) < max
    /\ LET c == client[u]
           id == c.currentStroke.id
           c1 == [c EXCEPT
                    !.activeStrokes =
                        IF id \in DOMAIN @
                        THEN [@ EXCEPT ![id].points = Append(@, point)] ELSE @,
                    !.currentStroke.points = Append(@, point),
                    !.pointBatch = Append(@, point)]
       IN  IF Len(c1.pointBatch) >= MinPointsToSend
           THEN /\ reqs' = flushPointBatch(reqs, NextId(u), c1, u)
                /\ Count(u, 1)
                /\ client' = [client EXCEPT ![u] = [c1 EXCEPT !.pointBatch = <<>>]]
           ELSE /\ client' = [client EXCEPT ![u] = [c1 EXCEPT !.batchTimeout = TRUE]]
                /\ UNCHANGED <<reqs, sent>>
    /\ UNCHANGED <<store, sessions>>

updateStroke(u, point) == updateStrokeUpTo(u, point, MaxPoints)

\* the batch timer fires: flushPointBatch(); batchTimeoutRef.current = null
batchTimeout(u) ==
    /\ client[u].batchTimeout
    /\ LET c == client[u]
       IN  IF Flushes(c)
           THEN /\ reqs' = flushPointBatch(reqs, NextId(u), c, u)
                /\ Count(u, 1)
                /\ client' = [client EXCEPT ![u].pointBatch = <<>>,
                                            ![u].batchTimeout = FALSE]
           ELSE /\ client' = [client EXCEPT ![u].batchTimeout = FALSE]
                /\ UNCHANGED <<reqs, sent>>
    /\ UNCHANGED <<store, sessions>>

\* endStroke: flush, move the stroke from active to strokes at once, send stroke_end
endStroke(u) ==
    /\ client[u].currentStroke # NoStroke
    /\ LET c == client[u]
           k == IF Flushes(c) THEN 1 ELSE 0
           completedStroke == c.currentStroke
       IN  /\ Count(u, k + 1)
           /\ reqs' = sendMessage(flushPointBatch(reqs, NextId(u), c, u),
                          Id(u, sent[u] + k + 1), c, u, "stroke_end",
                          [strokeId |-> completedStroke.id,
                           stroke |-> completedStroke])
           /\ client' = [client EXCEPT
                  ![u].pointBatch = IF k = 1 THEN <<>> ELSE @,
                  ![u].activeStrokes = Del(@, completedStroke.id),
                  ![u].strokes = Append(@, completedStroke),
                  ![u].currentStroke = NoStroke]
    /\ UNCHANGED <<store, sessions>>

\* A request that only sends a message
send(u, type, payload) ==
    /\ Ready(u)
    /\ Count(u, 1)
    /\ reqs' = sendMessage(reqs, NextId(u), client[u], u, type, payload)
    /\ UNCHANGED <<store, sessions, client>>

sendUndo(u) == send(u, "undo", EmptyMap)
sendRedo(u) == send(u, "redo", EmptyMap)
clearCanvas(u) == send(u, "clear", EmptyMap)
updateCursor(u, pos, isDrawing) ==
    send(u, "cursor_move", [pos |-> pos, isDrawing |-> isDrawing])
postNotification(u) ==
    send(u, "notification", [message |-> "m", type |-> "info"])

\* A POST that is not the hook's: the named field of the message is missing
postMalformed(u, roomId, field) ==
    /\ Count(u, 1)
    /\ reqs' = Put(reqs, NextId(u),
                   [Request("POST", "clear", roomId, u, EmptyMap)
                       EXCEPT ![field] = ""])
    /\ UNCHANGED <<store, sessions, client>>

\* The transport delivers a POST twice: the server gets a second request with
\* the same body
retransmit(n) ==
    /\ n \in DOMAIN reqs
    /\ reqs[n].kind = "POST"
    /\ reqs[n].pc = "sent"
    /\ Count(n[1], 1)
    /\ reqs' = Put(reqs, NextId(n[1]), reqs[n])
    /\ UNCHANGED <<store, sessions, client>>

\* A session file saved earlier: one stroke and the operation that added it
SavedSession ==
    LET stroke == Stroke(Id("saved", 1), "u1", <<"p1">>, DefaultWidth)
    IN  [strokes |-> <<stroke>>,
         operations |-> <<Operation(Id("saved", 2), stroke, "u1")>>]

\* loadSession: sendMessage('load_session', { session })
loadSession(u, session) == send(u, "load_session", [session |-> session])

(* Specifications *)

\* The part of a stored room the history keeps
Core(data) ==
    IF data = NoData THEN [strokes |-> <<>>, operations |-> <<>>, redoStack |-> <<>>]
    ELSE [strokes |-> data.strokes, operations |-> data.operations,
          redoStack |-> data.redoStack]

\* ok: the handler went past its checks (membership, room limit, empty log)
Handled(type, sid, ok, status, data) ==
    [type |-> type, strokeId |-> sid, ok |-> ok, status |-> status,
     after |-> Core(data)]

\* The status of the response of a handler that returns in this step: GET
\* returns before its stream only for a full room (503); POST returns 400 for
\* a missing field or a stroke_update without points, 401 to a non-member and
\* { success: true } (200) after the switch, whatever the case did
Response(n) ==
    IF reqs[n].pc # "sent" THEN 200
    ELSE IF reqs[n].kind = "GET" THEN 503
    ELSE IF missingFields(reqs[n]) THEN 400
    ELSE IF ~userFound(getRoom(reqs[n].roomId), reqs[n].userId) THEN 401
    ELSE IF reqs[n].type = "stroke_update" /\ Len(reqs[n].payload.points) = 0
    THEN 400
    ELSE 200

Init ==
    /\ store = [r \in Rooms |-> NoData]
    /\ reqs = EmptyMap
    /\ sent = [u \in Users |-> 0]
    /\ sessions = EmptyMap
    /\ client = [u \in Users |-> HookState]
    /\ hist = <<Handled("init", NoId, TRUE, 200, NoData)>>

\* hist keeps the last three handled requests: a request is handled when its
\* handler returns, and the entry holds what the store holds at that moment
Record ==
    LET done == (DOMAIN reqs) \ (DOMAIN reqs')
    IN  IF done = {} THEN hist' = hist
        ELSE LET n == CHOOSE m \in done : TRUE
                 h == Append(hist,
                         Handled(reqs[n].type,
                                 Field(reqs[n].payload, "strokeId", NoId),
                                 reqs[n].pc # "sent",
                                 Response(n),
                                 IF reqs[n].roomId \in Rooms
                                 THEN store'[reqs[n].roomId] ELSE NoData))
             IN  hist' = IF Len(h) > 3 THEN Tail(h) ELSE h

\* Requests are handled one at a time: no handler starts while another runs
Idle == \A m \in DOMAIN reqs : reqs[m].pc = "sent"

\* Every event enqueued on a connected client's stream has been handled
Delivered ==
    \A u \in Users :
        client[u].eventSource \in DOMAIN sessions =>
            client[u].handled = Len(sessions[client[u].eventSource].stream)

\* Nothing is in flight: no request, no event
Quiet == reqs = EmptyMap /\ Delivered

\* SpecSeq: a client acts when nothing is in flight, within the budget
Turn == Quiet /\ nreq < MaxReqs

\* Spec: a client acts within its own budget
May(u) == sent[u] < MaxSent

\* Spec: the handlers of concurrent requests interleave at every await.
\* Clients join, draw and commit strokes, and reduce the events they receive.
Next ==
    \/ \E u \in Users, r \in JoinRooms :
          May(u) /\ connect(u, r) /\ UNCHANGED hist
    \/ \E u \in Users : onmessage(u) /\ UNCHANGED hist
    \/ \E u \in Users, p \in PointSet, w \in Widths :
          May(u) /\ startStroke(u, p, w) /\ UNCHANGED hist
    \/ \E u \in Users : May(u) /\ endStroke(u) /\ UNCHANGED hist
    \/ \E n \in DOMAIN reqs : POSTgetRoom(n) /\ UNCHANGED hist
    \/ \E n \in DOMAIN reqs : POSTsaveRoom(n) /\ UNCHANGED hist
    \/ \E n \in DOMAIN reqs : POSTbroadcast(n) /\ UNCHANGED hist
    \/ \E n \in DOMAIN reqs : GETgetRoom(n) /\ UNCHANGED hist
    \/ \E n \in DOMAIN reqs : GETsaveRoom(n) /\ UNCHANGED hist
    \/ \E n \in DOMAIN reqs : GETstart(n) /\ UNCHANGED hist
    \/ \E n \in DOMAIN reqs : GETsubscribe(n) /\ UNCHANGED hist

Spec == Init /\ [][Next]_vars

\* SpecSeq: one thing at a time. A client acts when nothing is in flight, the
\* requests it sent are handled one after the other (in any order), and hist
\* records the handled requests. Every kind of request is sent.
SeqNext ==
    \/ \E u \in Users, r \in JoinRooms : Turn /\ connect(u, r) /\ Record
    \/ \E u \in Users : onmessage(u) /\ Record
    \/ \E u \in Users : Turn /\ close(u) /\ Record
    \/ \E u \in Users, p \in PointSet, w \in Widths :
          Turn /\ startStroke(u, p, w) /\ Record
    \/ \E u \in Users, p \in PointSet : Turn /\ updateStroke(u, p) /\ Record
    \/ \E u \in Users : Turn /\ batchTimeout(u) /\ Record
    \/ \E u \in Users : Turn /\ endStroke(u) /\ Record
    \/ \E u \in Users : Turn /\ sendUndo(u) /\ Record
    \/ \E u \in Users : Turn /\ sendRedo(u) /\ Record
    \/ \E u \in Users : Turn /\ clearCanvas(u) /\ Record
    \/ \E u \in Users, p \in CursorPos :
          Turn /\ updateCursor(u, p, FALSE) /\ Record
    \/ \E u \in Users : Turn /\ postNotification(u) /\ Record
    \/ \E u \in Users : Turn /\ loadSession(u, SavedSession) /\ Record
    \/ \E n \in DOMAIN reqs : Idle /\ POSTgetRoom(n) /\ Record
    \/ \E n \in DOMAIN reqs : POSTsaveRoom(n) /\ Record
    \/ \E n \in DOMAIN reqs : POSTbroadcast(n) /\ Record
    \/ \E n \in DOMAIN reqs : Idle /\ GETgetRoom(n) /\ Record
    \/ \E n \in DOMAIN reqs : GETsaveRoom(n) /\ Record
    \/ \E n \in DOMAIN reqs : GETstart(n) /\ Record
    \/ \E n \in DOMAIN reqs : GETsubscribe(n) /\ Record
    \/ \E n \in DOMAIN reqs : Idle /\ cancelGetRoom(n) /\ Record
    \/ \E n \in DOMAIN reqs : cancelSaveRoom(n) /\ Record
    \/ \E n \in DOMAIN reqs : cancelUnsubscribe(n) /\ Record
    \/ \E n \in DOMAIN reqs : cancelBroadcast(n) /\ Record

SpecSeq == Init /\ [][SeqNext]_vars

\* SpecJoin: members join and leave a room that other members already fill up
\* to, or nearly up to, the room limit; the handlers interleave at every await.
Crowd(k) == {"m" \o ToString(i) : i \in 1..k}
CrowdSizes == {0, MemberCap - 1, MemberCap}

InitJoin ==
    /\ \E k \in CrowdSizes :
          store = [r \in Rooms |->
                      IF r \in JoinRooms /\ k > 0
                      THEN RoomState(<<>>, <<>>, <<>>, Crowd(k), EmptyMap)
                      ELSE NoData]
    /\ reqs = EmptyMap
    /\ sent = [u \in Users |-> 0]
    /\ sessions = EmptyMap
    /\ client = [u \in Users |-> HookState]
    /\ hist = <<Handled("init", NoId, TRUE, 200, NoData)>>

JoinNext ==
    \/ \E u \in Users, r \in JoinRooms :
          May(u) /\ connect(u, r) /\ UNCHANGED hist
    \/ \E u \in Users : May(u) /\ close(u) /\ UNCHANGED hist
    \/ \E n \in DOMAIN reqs : GETgetRoom(n) /\ UNCHANGED hist
    \/ \E n \in DOMAIN reqs : GETsaveRoom(n) /\ UNCHANGED hist
    \/ \E n \in DOMAIN reqs : GETstart(n) /\ UNCHANGED hist
    \/ \E n \in DOMAIN reqs : GETsubscribe(n) /\ UNCHANGED hist
    \/ \E n \in DOMAIN reqs : cancelGetRoom(n) /\ UNCHANGED hist
    \/ \E n \in DOMAIN reqs : cancelSaveRoom(n) /\ UNCHANGED hist
    \/ \E n \in DOMAIN reqs : cancelUnsubscribe(n) /\ UNCHANGED hist
    \/ \E n \in DOMAIN reqs : cancelBroadcast(n) /\ UNCHANGED hist

SpecJoin == InitJoin /\ [][JoinNext]_vars

\* SpecLog: a room that has seen many commits: its members are gone, its
\* strokes and its operation log (one add per stroke) are still stored. Clients
\* join it and commit more strokes, one request at a time.
OldStroke(i) == Stroke(Id("old", i), "u1", <<"p1">>, DefaultWidth)
OldOperation(i) == Operation(Id("oldop", i), OldStroke(i), "u1")
LogSizes == {OperationCap - 1, OperationCap}

InitLog ==
    /\ \E k \in LogSizes :
          store = [r \in Rooms |->
                      IF r \in JoinRooms
                      THEN RoomState([i \in 1..k |-> OldStroke(i)],
                                     [i \in 1..k |-> OldOperation(i)],
                                     <<>>, {}, EmptyMap)
                      ELSE NoData]
    /\ reqs = EmptyMap
    /\ sent = [u \in Users |-> 0]
    /\ sessions = EmptyMap
    /\ client = [u \in Users |-> HookState]
    /\ hist = <<Handled("init", NoId, TRUE, 200, NoData)>>

LogNext ==
    \/ \E u \in Users, r \in JoinRooms :
          Turn /\ connect(u, r) /\ UNCHANGED hist
    \/ \E u \in Users : onmessage(u) /\ UNCHANGED hist
    \/ \E u \in Users, p \in PointSet, w \in Widths :
          Turn /\ startStroke(u, p, w) /\ UNCHANGED hist
    \/ \E u \in Users : Turn /\ endStroke(u) /\ UNCHANGED hist
    \/ \E n \in DOMAIN reqs : Idle /\ POSTgetRoom(n) /\ UNCHANGED hist
    \/ \E n \in DOMAIN reqs : POSTsaveRoom(n) /\ UNCHANGED hist
    \/ \E n \in DOMAIN reqs : POSTbroadcast(n) /\ UNCHANGED hist
    \/ \E n \in DOMAIN reqs : Idle /\ GETgetRoom(n) /\ UNCHANGED hist
    \/ \E n \in DOMAIN reqs : GETsaveRoom(n) /\ UNCHANGED hist
    \/ \E n \in DOMAIN reqs : GETstart(n) /\ UNCHANGED hist
    \/ \E n \in DOMAIN reqs : GETsubscribe(n) /\ UNCHANGED hist

SpecLog == InitLog /\ [][LogNext]_vars

\* SpecClock: strokes carry the timestamp of their client's clock; the clocks
\* of the clients are not synchronised and a clock can be set back. Requests
\* are handled one after the other.
ClientClock == {1, 2}

ClockNext ==
    \/ \E u \in Users, r \in JoinRooms :
          Turn /\ connect(u, r) /\ UNCHANGED hist
    \/ \E u \in Users : onmessage(u) /\ UNCHANGED hist
    \/ \E u \in Users, p \in PointSet, w \in Widths, now \in ClientClock :
          Turn /\ startStrokeAt(u, p, w, now) /\ UNCHANGED hist
    \/ \E u \in Users : Turn /\ endStroke(u) /\ UNCHANGED hist
    \/ \E n \in DOMAIN reqs : Idle /\ POSTgetRoom(n) /\ UNCHANGED hist
    \/ \E n \in DOMAIN reqs : POSTsaveRoom(n) /\ UNCHANGED hist
    \/ \E n \in DOMAIN reqs : POSTbroadcast(n) /\ UNCHANGED hist
    \/ \E n \in DOMAIN reqs : Idle /\ GETgetRoom(n) /\ UNCHANGED hist
    \/ \E n \in DOMAIN reqs : GETsaveRoom(n) /\ UNCHANGED hist
    \/ \E n \in DOMAIN reqs : GETstart(n) /\ UNCHANGED hist
    \/ \E n \in DOMAIN reqs : GETsubscribe(n) /\ UNCHANGED hist

SpecClock == Init /\ [][ClockNext]_vars

\* SpecRooms: two rooms side by side. Each client joins either room and sends
\* the requests of the protocol; requests are handled one after the other.
RoomsNext ==
    \/ \E u \in Users, r \in Rooms : Turn /\ connect(u, r) /\ Record
    \/ \E u \in Users : onmessage(u) /\ Record
    \/ \E u \in Users : Turn /\ close(u) /\ Record
    \/ \E u \in Users, p \in PointSet, w \in Widths :
          Turn /\ startStroke(u, p, w) /\ Record
    \/ \E u \in Users, p \in PointSet :
          Turn /\ updateStroke(u, p) /\ Record
    \/ \E u \in Users : Turn /\ endStroke(u) /\ Record
    \/ \E u \in Users : Turn /\ sendUndo(u) /\ Record
    \/ \E u \in Users : Turn /\ sendRedo(u) /\ Record
    \/ \E u \in Users : Turn /\ clearCanvas(u) /\ Record
    \/ \E u \in Users, p \in CursorPos :
          Turn /\ updateCursor(u, p, FALSE) /\ Record
    \/ \E n \in DOMAIN reqs : Idle /\ POSTgetRoom(n) /\ Record
    \/ \E n \in DOMAIN reqs : POSTsaveRoom(n) /\ Record
    \/ \E n \in DOMAIN reqs : POSTbroadcast(n) /\ Record
    \/ \E n \in DOMAIN reqs : Idle /\ GETgetRoom(n) /\ Record
    \/ \E n \in DOMAIN reqs : GETsaveRoom(n) /\ Record
    \/ \E n \in DOMAIN reqs : GETstart(n) /\ Record
    \/ \E n \in DOMAIN reqs : GETsubscribe(n) /\ Record
    \/ \E n \in DOMAIN reqs : Idle /\ cancelGetRoom(n) /\ Record
    \/ \E n \in DOMAIN reqs : cancelSaveRoom(n) /\ Record
    \/ \E n \in DOMAIN reqs : cancelUnsubscribe(n) /\ Record
    \/ \E n \in DOMAIN reqs : cancelBroadcast(n) /\ Record

SpecRooms == Init /\ [][RoomsNext]_vars

\* SpecFault: the server among faults and foreign clients. A Redis write can
\* fail, a client can close its stream while requests are in flight, a POST can
\* arrive twice or with a field missing, and a stroke can ask for any width.
\* Requests are handled one after the other.
AnyWidths == {DefaultWidth, MaxWidth + MaxWidth \div 2}
MessageFields == {"roomId", "userId", "type"}
Budget == nreq < MaxReqs

FaultNext ==
    \/ \E u \in Users, r \in JoinRooms :
          Turn /\ connect(u, r) /\ Record
    \/ \E u \in Users : onmessage(u) /\ Record
    \/ \E u \in Users : Budget /\ close(u) /\ Record
    \/ \E u \in Users, p \in PointSet, w \in AnyWidths :
          Turn /\ startStroke(u, p, w) /\ Record
    \/ \E u \in Users : Turn /\ endStroke(u) /\ Record
    \/ \E u \in Users : Turn /\ sendUndo(u) /\ Record
    \/ \E u \in Users, r \in JoinRooms, f \in MessageFields :
          Turn /\ postMalformed(u, r, f) /\ Record
    \/ \E n \in DOMAIN reqs : Budget /\ retransmit(n) /\ Record
    \/ \E n \in DOMAIN reqs : Idle /\ POSTgetRoom(n) /\ Record
    \/ \E n \in DOMAIN reqs : POSTsaveRoom(n) /\ Record
    \/ \E n \in DOMAIN reqs : POSTsaveRoomFails(n) /\ Record
    \/ \E n \in DOMAIN reqs : POSTbroadcast(n) /\ Record
    \/ \E n \in DOMAIN reqs : Idle /\ GETgetRoom(n) /\ Record
    \/ \E n \in DOMAIN reqs : GETsaveRoom(n) /\ Record
    \/ \E n \in DOMAIN reqs : GETstart(n) /\ Record
    \/ \E n \in DOMAIN reqs : GETsubscribe(n) /\ Record
    \/ \E n \in DOMAIN reqs : Idle /\ cancelGetRoom(n) /\ Record
    \/ \E n \in DOMAIN reqs : cancelSaveRoom(n) /\ Record
    \/ \E n \in DOMAIN reqs : cancelUnsubscribe(n) /\ Record
    \/ \E n \in DOMAIN reqs : cancelBroadcast(n) /\ Record

SpecFault == Init /\ [][FaultNext]_vars

\* SpecDraw: clients draw strokes point by point and the timer flushes the
\* batches; the handlers of concurrent requests interleave at every await. A
\* client sends a request once the server has begun to handle its earlier ones,
\* so that the requests of a client arrive in the order it sent them.
Arrived(u) ==
    \A n \in DOMAIN reqs :
        (reqs[n].userId = u /\ reqs[n].kind = "POST") => reqs[n].pc # "sent"

DrawnPoints == {"p1", "p2"}

DrawNext ==
    \/ \E u \in Users, r \in JoinRooms :
          Budget /\ connect(u, r) /\ UNCHANGED hist
    \/ \E u \in Users : onmessage(u) /\ UNCHANGED hist
    \/ \E u \in Users, p \in PointSet, w \in Widths :
          Budget /\ Arrived(u) /\ startStroke(u, p, w) /\ UNCHANGED hist
    \/ \E u \in Users, p \in DrawnPoints :
          Budget /\ Arrived(u) /\ updateStrokeUpTo(u, p, MaxDrawn)
              /\ UNCHANGED hist
    \/ \E u \in Users :
          Budget /\ Arrived(u) /\ batchTimeout(u) /\ UNCHANGED hist
    \/ \E n \in DOMAIN reqs : POSTgetRoom(n) /\ UNCHANGED hist
    \/ \E n \in DOMAIN reqs : POSTbroadcast(n) /\ UNCHANGED hist
    \/ \E n \in DOMAIN reqs : GETgetRoom(n) /\ UNCHANGED hist
    \/ \E n \in DOMAIN reqs : GETsaveRoom(n) /\ UNCHANGED hist
    \/ \E n \in DOMAIN reqs : GETstart(n) /\ UNCHANGED hist
    \/ \E n \in DOMAIN reqs : GETsubscribe(n) /\ UNCHANGED hist

SpecDraw == Init /\ [][DrawNext]_vars

\* SpecRead: clients join and commit strokes, one request at a time, and the
\* read of the room at the start of a join can fail. Nothing in a behaviour
\* takes anything out of a room: nobody leaves, undoes or clears.
ReadNext ==
    \/ \E u \in Users, r \in JoinRooms :
          Turn /\ connect(u, r) /\ UNCHANGED hist
    \/ \E u \in Users : onmessage(u) /\ UNCHANGED hist
    \/ \E u \in Users, p \in PointSet, w \in Widths :
          Turn /\ startStroke(u, p, w) /\ UNCHANGED hist
    \/ \E u \in Users : Turn /\ endStroke(u) /\ UNCHANGED hist
    \/ \E n \in DOMAIN reqs : Idle /\ POSTgetRoom(n) /\ UNCHANGED hist
    \/ \E n \in DOMAIN reqs : POSTsaveRoom(n) /\ UNCHANGED hist
    \/ \E n \in DOMAIN reqs : POSTbroadcast(n) /\ UNCHANGED hist
    \/ \E n \in DOMAIN reqs : Idle /\ GETgetRoom(n) /\ UNCHANGED hist
    \/ \E n \in DOMAIN reqs : Idle /\ GETgetRoomFails(n) /\ UNCHANGED hist
    \/ \E n \in DOMAIN reqs : GETsaveRoom(n) /\ UNCHANGED hist
    \/ \E n \in DOMAIN reqs : GETstart(n) /\ UNCHANGED hist
    \/ \E n \in DOMAIN reqs : GETsubscribe(n) /\ UNCHANGED hist

SpecRead == Init /\ [][ReadNext]_vars

\* SpecUndo: a room that holds operations, some in its log and the others,
\* undone, on its redo stack. Clients join when nothing is in flight, and send
\* undo and redo one request at a time; the handlers of the requests of
\* different clients interleave at every await.
InitUndo ==
    /\ \E k \in 0..MaxOps :
          store = [r \in Rooms |->
                      IF r \in JoinRooms
                      THEN RoomState([i \in 1..MaxOps |-> OldStroke(i)],
                                     [i \in 1..k |-> OldOperation(i)],
                                     [i \in 1..MaxOps - k |->
                                         OldOperation(MaxOps + 1 - i)],
                                     {}, EmptyMap)
                      ELSE NoData]
    /\ reqs = EmptyMap
    /\ sent = [u \in Users |-> 0]
    /\ sessions = EmptyMap
    /\ client = [u \in Users |-> HookState]
    /\ hist = <<Handled("init", NoId, TRUE, 200, NoData)>>

\* Client u has no request in flight and has handled the events it got
Settled(u) == Delivered /\ \A n \in DOMAIN reqs : reqs[n].userId # u

UndoNext ==
    \/ \E u \in Users, r \in JoinRooms :
          Turn /\ connect(u, r) /\ UNCHANGED hist
    \/ \E u \in Users : onmessage(u) /\ UNCHANGED hist
    \/ \E u \in Users : Budget /\ Settled(u) /\ sendUndo(u) /\ UNCHANGED hist
    \/ \E u \in Users : Budget /\ Settled(u) /\ sendRedo(u) /\ UNCHANGED hist
    \/ \E n \in DOMAIN reqs : POSTgetRoom(n) /\ UNCHANGED hist
    \/ \E n \in DOMAIN reqs : POSTsaveRoom(n) /\ UNCHANGED hist
    \/ \E n \in DOMAIN reqs : POSTbroadcast(n) /\ UNCHANGED hist
    \/ \E n \in DOMAIN reqs : GETgetRoom(n) /\ UNCHANGED hist
    \/ \E n \in DOMAIN reqs : GETsaveRoom(n) /\ UNCHANGED hist
    \/ \E n \in DOMAIN reqs : GETstart(n) /\ UNCHANGED hist
    \/ \E n \in DOMAIN reqs : GETsubscribe(n) /\ UNCHANGED hist

SpecUndo == InitUndo /\ [][UndoNext]_vars

(* Properties *)

Range(s) == {s[i] : i \in 1..Len(s)}
Ids(strokes) == {strokes[i].id : i \in 1..Len(strokes)}
Index(strokes, id) == CHOOSE i \in 1..Len(strokes) : strokes[i].id = id
Times(strokes, id) == Cardinality({i \in 1..Len(strokes) : strokes[i].id = id})

\* hist ends with these kinds of request, handled one right after the other
Ends2(t2, t3) == Len(hist) = 3 /\ hist[2].type = t2 /\ hist[3].type = t3
Ends3(t1, t2, t3) == Ends2(t2, t3) /\ hist[1].type = t1

\* C1: stroke_end(s) immediately followed by undo leaves the stored canonical
\* strokes equal to their value before stroke_end(s): undo of an add removes
\* the matching stroke.
C1_UndoOfAddRestoresStrokes ==
    (Ends2("stroke_end", "undo") /\ hist[2].ok /\ hist[3].ok)
        => hist[3].after.strokes = hist[1].after.strokes

\* C2: after stroke_end(s), undo, redo handled in that order with nothing in
\* between, the stored canonical strokes and operation log equal their values
\* right after stroke_end(s), s is there exactly once, at the place it was
\* committed to, and the redo stack is empty.
C2_RedoAfterUndoReproduces ==
    (Ends3("stroke_end", "undo", "redo") /\ hist[1].ok)
        => /\ hist[3].after.strokes = hist[1].after.strokes
           /\ hist[3].after.operations = hist[1].after.operations
           /\ hist[3].after.redoStack = <<>>
           /\ Times(hist[3].after.strokes, hist[1].strokeId) = 1
           /\ Last(hist[3].after.strokes).id = hist[1].strokeId
           /\ Last(hist[3].after.operations).stroke.id = hist[1].strokeId

C2_Witness ==
    /\ Ends3("stroke_end", "undo", "redo")
    /\ hist[1].ok /\ hist[2].ok /\ hist[3].ok
    /\ hist[2].after.redoStack # <<>>

\* C3: clear immediately followed by undo restores the stored canonical strokes
\* to exactly the list L that existed when clear was handled.
C3_UndoOfClearRestoresStrokes ==
    (Ends2("clear", "undo") /\ hist[2].ok)
        => hist[3].after.strokes = hist[1].after.strokes

\* The clients whose stream is open and whose hook holds its sync_state
Connected(u) == client[u].eventSource \in DOMAIN sessions /\ Ready(u)

\* C4: once the strokes S1..Sn are committed in that order and every event is
\* delivered, the strokes list of every connected client, the committer's
\* included, is [S1..Sn], the stored canonical strokes.
C4_ClientViewIsCanonical ==
    Quiet =>
        \A u \in Users :
            Connected(u) => client[u].strokes = getRoom(client[u].roomId).strokes

\* Requests of one type whose handler is at one place
At(type, pc) == {n \in DOMAIN reqs : reqs[n].type = type /\ reqs[n].pc = pc}

\* C5: when two stroke_end handlers of one room, each of which read the room
\* with both senders as members, have both done their getRoom, their mutation
\* and their saveRoom, however these interleaved, the stored canonical strokes
\* hold both strokes and the stored log both add operations.
C5_ConcurrentCommitsBothStored ==
    \A n, m \in At("stroke_end", "publish") :
        (n # m /\ reqs[n].roomId = reqs[m].roomId
               /\ {reqs[n].userId, reqs[m].userId} \subseteq reqs[n].room.users
               /\ {reqs[n].userId, reqs[m].userId} \subseteq reqs[m].room.users) =>
            LET room == getRoom(reqs[n].roomId)
            IN  /\ {reqs[n].payload.stroke, reqs[m].payload.stroke}
                       \subseteq Range(room.strokes)
                /\ {reqs[n].ev.payload.operation, reqs[m].ev.payload.operation}
                       \subseteq Range(room.operations)

\* The stroke ids of the stroke_end events of a stream, in stream order
RECURSIVE Commits(_)
Commits(stream) ==
    IF stream = <<>> THEN <<>>
    ELSE IF Last(stream).type = "stroke_end"
         THEN Append(Commits(Front(stream)), Last(stream).payload.strokeId)
         ELSE Commits(Front(stream))

\* C6: two strokes that are both in the stored canonical strokes stand there in
\* the order in which their stroke_end events stand in every session's stream.
C6_StoredOrderIsStreamOrder ==
    \A s \in DOMAIN sessions :
        LET ends == Commits(sessions[s].stream)
            strokes == getRoom(sessions[s].roomId).strokes
        IN  \A i, j \in 1..Len(ends) :
                (i < j /\ {ends[i], ends[j]} \subseteq Ids(strokes)
                       /\ Times(strokes, ends[i]) = 1 /\ Times(strokes, ends[j]) = 1)
                    => Index(strokes, ends[i]) < Index(strokes, ends[j])

\* The step is the saveRoom of an undo or of a clear
SavesUndoOrClear ==
    \E n \in DOMAIN reqs : reqs[n].type \in {"undo", "clear"} /\ POSTsaveRoom(n)

\* C7: a stroke in the stored canonical strokes stays there, unaltered, through
\* every step that is not the effect of an undo or of a clear: no join, leave,
\* cursor_move, stroke_start, stroke_update or other stroke_end removes it.
C7_CommittedStrokesStay ==
    [][\A r \in Rooms :
          SavesUndoOrClear \/
              Range(getRoom(r).strokes) \subseteq Range(Core(store'[r]).strokes)]_vars

ForwardTypes == {"stroke_end", "clear"}

\* C8: the saveRoom of a stroke_end or of a clear leaves the stored redo stack
\* empty, the event published for it carries canRedo = false, and the stored
\* redo stack grows only in the saveRoom of an undo.
C8_ForwardOperationClearsRedo ==
    [][/\ \A n \in DOMAIN reqs :
            /\ (reqs[n].type \in ForwardTypes /\ POSTsaveRoom(n))
                  => Core(store'[reqs[n].roomId]).redoStack = <<>>
            /\ (reqs[n].type \in ForwardTypes /\ POSTbroadcast(n))
                  => Field(reqs[n].ev.payload, "canRedo", "undefined") = "false"
       /\ \A r \in Rooms :
            Len(Core(store'[r]).redoStack) > Len(getRoom(r).redoStack)
                => \E n \in DOMAIN reqs : reqs[n].type = "undo" /\ POSTsaveRoom(n)]_vars

\* The message types the POST switch has a case for
PostTypes ==
    {"stroke_start", "stroke_update", "stroke_end", "cursor_move",
     "undo", "redo", "clear", "notification"}

\* A request that POST answers without an event: the sender is no member of the
\* room, the switch has no case for its type, or the request changes nothing
\* (nothing to undo, nothing to redo, no points)
NoEvent(n) ==
    \/ reqs[n].type \notin PostTypes
    \/ reqs[n].userId \notin getRoom(reqs[n].roomId).users
    \/ reqs[n].type = "undo" /\ getRoom(reqs[n].roomId).operations = <<>>
    \/ reqs[n].type = "redo" /\ getRoom(reqs[n].roomId).redoStack = <<>>
    \/ reqs[n].type = "stroke_update" /\ reqs[n].payload.points = <<>>

\* The sessions subscribed to a room whose stream is open
Subscribed(roomId) ==
    {s \in DOMAIN sessions :
        sessions[s].roomId = roomId /\ sessions[s].subscribed /\ sessions[s].open}

C10_LateUpdateIsSilent ==
    [][\A n \in DOMAIN reqs :
          (/\ reqs[n].type = "stroke_update"
           /\ reqs[n].payload.strokeId \in Ids(getRoom(reqs[n].roomId).strokes)
           /\ (POSTgetRoom(n) \/ POSTbroadcast(n)))
              => UNCHANGED <<store, sessions>>]_vars

\* C11: a join by a new member id that finds the room at the room limit is
\* turned away at once: the handler returns without saving, so the stored room
\* gets no member and no cursor for that id, no stream is opened (no sync_state)
\* and no user_joined is published.
C11_FullRoomRejectsJoin ==
    [][\A n \in DOMAIN reqs :
          (/\ reqs[n].kind = "GET"
           /\ Cardinality(getRoom(reqs[n].roomId).users) >= MemberCap
           /\ reqs[n].userId \notin getRoom(reqs[n].roomId).users
           /\ GETgetRoom(n))
              => /\ n \notin DOMAIN reqs'
                 /\ n \notin DOMAIN sessions'
                 /\ UNCHANGED <<store, sessions>>]_vars

\* A client whose join was turned away by a full room: its GET is over, no
\* stream was opened for it and it is no member
C11_Witness ==
    \E u \in Users :
        /\ client[u].eventSource # NoId
        /\ client[u].eventSource \notin DOMAIN reqs
        /\ client[u].eventSource \notin DOMAIN sessions
        /\ Cardinality(getRoom(client[u].roomId).users) = MemberCap
        /\ u \notin getRoom(client[u].roomId).users
        /\ u \notin DOMAIN getRoom(client[u].roomId).cursors

\* C12: the stored room never has more members than the room limit, however
\* the getRoom and saveRoom of concurrent joins interleave.
C12_MembersWithinCap ==
    \A r \in Rooms : Cardinality(getRoom(r).users) <= MemberCap

\* Two joins that both read the room one member short of the limit and both
\* saved it: each saved a full room
C12_Witness ==
    \E n, m \in DOMAIN reqs :
        /\ n # m
        /\ reqs[n].kind = "GET" /\ reqs[m].kind = "GET"
        /\ reqs[n].pc = "start" /\ reqs[m].pc = "start"
        /\ reqs[n].roomId = reqs[m].roomId
        /\ reqs[n].room.users # reqs[m].room.users
        /\ Cardinality(reqs[n].room.users) = MemberCap
        /\ Cardinality(reqs[m].room.users) = MemberCap
        /\ Cardinality(getRoom(reqs[n].roomId).users) = MemberCap

\* The request handled last, and the stored room before and after it
LastHandled == hist[Len(hist)]
Before == hist[Len(hist) - 1].after
After == hist[Len(hist)].after

\* C13: handling clear with canonical strokes L and operation log G leaves the
\* stored strokes and redo stack empty and the stored log equal to G followed
\* by one clear operation that carries L.
C13_ClearAppendsSnapshotOperation ==
    (Len(hist) >= 2 /\ LastHandled.type = "clear" /\ LastHandled.ok) =>
        /\ After.strokes = <<>>
        /\ After.redoStack = <<>>
        /\ Len(After.operations) = Len(Before.operations) + 1
        /\ Front(After.operations) = Before.operations
        /\ Last(After.operations).type = "clear"
        /\ Field(Last(After.operations), "strokes", NoData) = Before.strokes

\* C14: an undo sent by any member pops the last operation of the room's one
\* operation log, whoever authored it, that log is what is saved, and the undo
\* event carrying the popped operation is enqueued for every member of the room.
C14_UndoIsGlobal ==
    [][\A n \in DOMAIN reqs :
          reqs[n].type = "undo" =>
             LET room == getRoom(reqs[n].roomId)
             IN  /\ (/\ reqs[n].userId \in room.users
                     /\ room.operations # <<>>
                     /\ POSTgetRoom(n))
                        => /\ n \in DOMAIN reqs'
                           /\ reqs'[n].room.operations = Front(room.operations)
                           /\ reqs'[n].ev.payload.operation = Last(room.operations)
                 /\ POSTsaveRoom(n)
                        => Core(store'[reqs[n].roomId]).operations
                               = reqs[n].room.operations
                 /\ POSTbroadcast(n)
                        => \A u \in room.users :
                              \E s \in Subscribed(reqs[n].roomId) :
                                 /\ sessions[s].userId = u
                                 /\ sessions'[s].stream =
                                        Append(sessions[s].stream, reqs[n].ev)]_vars

\* One member's undo of an operation another member authored stands in the
\* streams of both
C14_Witness ==
    \E s, t \in DOMAIN sessions :
        /\ sessions[s].userId # sessions[t].userId
        /\ \E e \in Range(sessions[s].stream) :
              /\ e.type = "undo"
              /\ e.userId = sessions[s].userId
              /\ e.payload.operation.userId = sessions[t].userId
              /\ e \in Range(sessions[t].stream)
              /\ e.payload.operation \notin Range(getRoom(e.roomId).operations)

\* C15: an undo handled with an empty operation log, and a redo handled with an
\* empty redo stack, is answered with an error, not with success.
C15_NothingToUndoIsAnError ==
    (/\ Len(hist) >= 2
     /\ \/ LastHandled.type = "undo" /\ Before.operations = <<>>
        \/ LastHandled.type = "redo" /\ Before.redoStack = <<>>)
        => LastHandled.status # 200

\* A stroke_end whose stroke is not in progress on the server: its stroke_start
\* has not been handled yet, or the stroke is already stored
NotInProgress(n) ==
    \/ /\ reqs[n].payload.strokeId \in DOMAIN reqs
       /\ reqs[reqs[n].payload.strokeId].type = "stroke_start"
       /\ reqs[reqs[n].payload.strokeId].pc = "sent"
    \/ reqs[n].payload.strokeId \in Ids(getRoom(reqs[n].roomId).strokes)

\* C16: a stroke_end for a strokeId with no stroke in progress is turned away:
\* the handler returns at once, stores nothing and publishes nothing.
C16_UnknownStrokeEndIsRejected ==
    [][\A n \in DOMAIN reqs :
          (/\ reqs[n].type = "stroke_end"
           /\ NotInProgress(n)
           /\ POSTgetRoom(n))
              => /\ n \notin DOMAIN reqs'
                 /\ UNCHANGED <<store, sessions>>]_vars

\* C17: when a member's load_session{session} has been handled, the stored
\* strokes are session.strokes, the stored log is session.operations and the
\* stored redo stack is empty, whatever the room held before.
C17_LoadSessionReplacesRoom ==
    [][\A n \in DOMAIN reqs :
          (/\ reqs[n].type = "load_session"
           /\ reqs[n].userId \in getRoom(reqs[n].roomId).users
           /\ n \notin DOMAIN reqs')
              => /\ Core(store'[reqs[n].roomId]).strokes
                        = reqs[n].payload.session.strokes
                 /\ Core(store'[reqs[n].roomId]).operations
                        = reqs[n].payload.session.operations
                 /\ Core(store'[reqs[n].roomId]).redoStack = <<>>]_vars

\* The sync_state a session was opened with
Snapshot(s) == sessions[s].stream[1].payload

\* C18: a room whose last member left keeps nothing: the member who then joins
\* first (and so finds itself the only member) gets a sync_state with no
\* strokes and with canUndo and canRedo false.
C18_EmptyRoomIsDiscarded ==
    \A s \in DOMAIN sessions :
        Snapshot(s).users = {sessions[s].userId}
            => /\ Snapshot(s).strokes = <<>>
               /\ Snapshot(s).operations = <<>>
               /\ Snapshot(s).cursors = EmptyMap
               /\ Snapshot(s).canUndo = "false"
               /\ Snapshot(s).canRedo = "false"

\* A member that has left: its stream is closed and no request of it is in flight
Gone(u) ==
    /\ client[u].eventSource = NoId
    /\ \A n \in DOMAIN reqs : reqs[n].userId # u

\* C19: once a member has left, the stored room holds no member and no cursor
\* of it, whatever other requests on the room were in flight; and the user_left
\* event naming it is enqueued for every session still subscribed to the room.
C19_LeaveRemovesMember ==
    [][/\ \A n \in DOMAIN reqs :
            cancelBroadcast(n)
               => \A s \in Subscribed(reqs[n].roomId) :
                     /\ Last(sessions'[s].stream).type = "user_left"
                     /\ Last(sessions'[s].stream).payload.userId = reqs[n].userId
                     /\ Front(sessions'[s].stream) = sessions[s].stream
       /\ \A u \in Users :
            Gone(u)' => \A r \in Rooms :
                           /\ u \notin getRoom(r)'.users
                           /\ u \notin DOMAIN getRoom(r)'.cursors]_vars

\* The events client v has handled so far
Seen(v) ==
    IF client[v].eventSource \in DOMAIN sessions
    THEN SubSeq(sessions[client[v].eventSource].stream, 1, client[v].handled)
    ELSE <<>>

\* Client v has handled a user_left of member w after the stroke_start of stroke id
LeftAfterStart(v, w, id) ==
    \E i, j \in 1..Len(Seen(v)) :
        /\ i < j
        /\ Seen(v)[i].type = "stroke_start" /\ Seen(v)[i].payload.id = id
        /\ Seen(v)[j].type = "user_left" /\ Seen(v)[j].payload.userId = w
        /\ \A k \in (i + 1)..Len(Seen(v)) :
              ~(Seen(v)[k].type = "stroke_start" /\ Seen(v)[k].payload.id = id)

\* C20: the stroke a member had started and not ended when it left is not in
\* the stored strokes, and no other client that has handled the member's
\* user_left still has that stroke among its activeStrokes.
C20_LeaveDropsActiveStroke ==
    /\ \A u \in Users :
          (Gone(u) /\ client[u].currentStroke # NoStroke)
              => \A r \in Rooms :
                    client[u].currentStroke.id \notin Ids(getRoom(r).strokes)
    /\ \A v \in Users :
          \A id \in DOMAIN client[v].activeStrokes :
              LET w == client[v].activeStrokes[id].userId
              IN  w # v => ~LeftAfterStart(v, w, id)

\* C21: the stored operation log never holds more entries than the retention
\* cap; the saveRoom of a stroke_end that finds the log at the cap drops the
\* oldest entry only and stores the new stroke after the strokes it found.
C21_LogWithinRetentionCap ==
    [][\A r \in Rooms :
          /\ Len(Core(store'[r]).operations) <= OperationCap
          /\ \A n \in DOMAIN reqs :
                (/\ reqs[n].type = "stroke_end" /\ reqs[n].roomId = r
                 /\ Len(getRoom(r).operations) = OperationCap
                 /\ POSTsaveRoom(n))
                    => /\ Core(store'[r]).operations =
                              Append(Tail(getRoom(r).operations),
                                     reqs[n].ev.payload.operation)
                       /\ Core(store'[r]).strokes =
                              Append(getRoom(r).strokes, reqs[n].payload.stroke)]_vars

\* The requests whose handler saves the room before it publishes its event
SavedTypes == {"stroke_end", "undo", "redo", "clear"}

\* C22: when saveRoom fails while stroke_end, undo, redo or clear is handled,
\* the handler returns at once (with an error) instead of going on to publish,
\* and an event of these requests is published only when the stored room holds
\* the room that the handler computed.
C22_FailedSaveIsAnErrorWithoutEvent ==
    [][\A n \in DOMAIN reqs :
          reqs[n].type \in SavedTypes =>
              /\ POSTsaveRoomFails(n) => n \notin DOMAIN reqs'
              /\ POSTbroadcast(n) =>
                    Core(store[reqs[n].roomId]) = Core(reqs[n].room)]_vars

\* The sessions subscribed to a room whose stream was closed by its client:
\* controller.enqueue throws on them
Broken(roomId) ==
    {s \in DOMAIN sessions :
        sessions[s].roomId = roomId /\ sessions[s].subscribed /\ ~sessions[s].open}

\* C23: when a POST publishes its event while the stream of a subscribed
\* session of the room is broken, the event is still appended to the stream of
\* every other subscribed session, the broken stream gets nothing, and the
\* request ends with { success: true }.
C23_BrokenStreamDoesNotBlockOthers ==
    [][\A n \in DOMAIN reqs :
          (/\ reqs[n].kind = "POST"
           /\ reqs[n].pc = "publish"
           /\ n \notin DOMAIN reqs'
           /\ Broken(reqs[n].roomId) # {})
              => /\ \A t \in Subscribed(reqs[n].roomId) :
                       sessions'[t].stream = Append(sessions[t].stream, reqs[n].ev)
                 /\ \A s \in Broken(reqs[n].roomId) :
                       sessions'[s].stream = sessions[s].stream
                 /\ Response(n) = 200]_vars

\* An open session holds, as its last event, an event of a POST that a broken
\* session subscribed to the same room did not get
C23_Witness ==
    \E s, t \in DOMAIN sessions :
        /\ s \in Broken(sessions[t].roomId)
        /\ t \in Subscribed(sessions[t].roomId)
        /\ Last(sessions[t].stream).type \in PostTypes
        /\ Last(sessions[t].stream) \notin Range(sessions[s].stream)

\* The handler of request n takes a step
Steps(n) == n \in DOMAIN reqs /\ (n \notin DOMAIN reqs' \/ reqs'[n] # reqs[n])

\* C24: every step of the handler of a request for one room (join, leave,
\* stroke_start, stroke_update, stroke_end, cursor_move, undo, redo, clear)
\* leaves what is stored for every other room unchanged, and leaves every
\* session of another room with the stream it had.
C24_RoomsAreIndependent ==
    [][\A n \in DOMAIN reqs :
          Steps(n) =>
              \A r2 \in Rooms \ {reqs[n].roomId} :
                  /\ store'[r2] = store[r2]
                  /\ \A s \in DOMAIN sessions :
                        sessions[s].roomId = r2 =>
                            s \in DOMAIN sessions' /\ sessions'[s] = sessions[s]]_vars

\* A stroke_end of one room is stored and about to be published while the
\* other room has a member and a subscribed session that got nothing but its
\* sync_state
C24_Witness ==
    \E n \in DOMAIN reqs, t \in DOMAIN sessions :
        /\ reqs[n].type = "stroke_end"
        /\ reqs[n].pc = "publish"
        /\ Core(store[reqs[n].roomId]).strokes # <<>>
        /\ sessions[t].roomId # reqs[n].roomId
        /\ t \in Subscribed(sessions[t].roomId)
        /\ Len(sessions[t].stream) = 1
        /\ store[sessions[t].roomId] # NoData
        /\ Core(store[sessions[t].roomId]).strokes = <<>>

\* The strokes carried by the stroke_start and stroke_end events of a stream
EventStrokes(stream) ==
    {stream[i].payload : i \in {j \in 1..Len(stream) : stream[j].type = "stroke_start"}}
    \cup {stream[i].payload.stroke :
             i \in {j \in 1..Len(stream) : stream[j].type = "stroke_end"}}

\* C25: every stored stroke, and every stroke carried by a stroke_start or a
\* stroke_end event, has a width within 1..100, whatever width was requested.
C25_WidthsAreClamped ==
    /\ \A r \in Rooms :
          \A st \in Range(Core(store[r]).strokes) : st.width \in MinWidth..MaxWidth
    /\ \A s \in DOMAIN sessions :
          \A st \in EventStrokes(sessions[s].stream) : st.width \in MinWidth..MaxWidth

\* C26: when the handler of a member's cursor_move returns after publishing,
\* the stored room holds a cursor for that member with the position and the
\* drawing flag of the request, where the sync_state of a later join reads it.
C26_CursorIsStored ==
    [][\A n \in DOMAIN reqs :
          (/\ reqs[n].type = "cursor_move"
           /\ reqs[n].pc = "publish"
           /\ n \notin DOMAIN reqs')
              => LET data == store'[reqs[n].roomId]
                 IN  /\ data # NoData
                     /\ reqs[n].userId \in DOMAIN data.cursors
                     /\ data.cursors[reqs[n].userId] =
                           UserCursor(reqs[n].userId, reqs[n].payload.pos,
                                      reqs[n].payload.isDrawing)]_vars

\* C27: in the hook state of every client, no stroke id is at once a key of
\* activeStrokes and the id of a stroke in strokes.
C27_ActiveOrCommittedNeverBoth ==
    \A u \in Users :
        DOMAIN client[u].activeStrokes \cap Ids(client[u].strokes) = {}

\* A POST that the checks ahead of the switch turn down: a field of the message
\* is missing, or the sender is not among the users of the stored room
Refused(n) ==
    /\ reqs[n].kind = "POST"
    /\ reqs[n].pc = "sent"
    /\ \/ \E f \in MessageFields : reqs[n][f] = ""
       \/ reqs[n].userId \notin getRoom(reqs[n].roomId).users

\* C28: the handler of a POST that lacks roomId, userId or type, or whose userId
\* is not a member of the room, returns at its first step with an error status
\* (400 or 401), and that step changes neither the store nor any stream.
C28_RefusedPostChangesNothing ==
    [][\A n \in DOMAIN reqs :
          (Refused(n) /\ Steps(n))
              => /\ n \notin DOMAIN reqs'
                 /\ Response(n) \in {400, 401}
                 /\ store' = store
                 /\ sessions' = sessions]_vars

\* A message with a missing field and a message of a sender who is no member
\* have both been refused while a session is subscribed to the room
C28_Witness ==
    /\ \E i \in 1..Len(hist) : hist[i].status = 400
    /\ \E i \in 1..Len(hist) : hist[i].status = 401
    /\ \E r \in Rooms : Subscribed(r) # {}

\* C29: the stream of every session starts with a sync_state event, and no
\* later event of the stream is a sync_state.
C29_OneSyncStateFirst ==
    \A s \in DOMAIN sessions :
        /\ sessions[s].stream[1].type = "sync_state"
        /\ \A i \in 2..Len(sessions[s].stream) :
              sessions[s].stream[i].type # "sync_state"

\* Two sessions of a room, each with events after its sync_state, one of which
\* is the other's user_joined
C29_Witness ==
    \E s, t \in DOMAIN sessions :
        /\ s # t
        /\ Len(sessions[s].stream) >= 3
        /\ Len(sessions[t].stream) >= 2
        /\ \E i \in 2..Len(sessions[s].stream) :
              /\ sessions[s].stream[i].type = "user_joined"
              /\ sessions[s].stream[i].userId = sessions[t].userId

\* C30: no two stored strokes of a room have the same id, also when a
\* stroke_end message reaches the server twice.
C30_StoredStrokeIdsAreUnique ==
    \A r \in Rooms :
        \A id \in Ids(Core(store[r]).strokes) :
            Times(Core(store[r]).strokes, id) = 1

\* C31: along the stored strokes of a room the timestamps never decrease,
\* whatever the clocks of the clients that drew them.
C31_StoredTimestampsNeverDecrease ==
    \A r \in Rooms :
        LET strokes == Core(store[r]).strokes
        IN  \A i \in 1..Len(strokes) - 1 :
                strokes[i].timestamp <= strokes[i + 1].timestamp

\* The points that the stroke_update events of a stream add to a stroke, in the
\* order of the stream
RECURSIVE UpdatePoints(_, _)
UpdatePoints(stream, id) ==
    IF stream = <<>> THEN <<>>
    ELSE LET m == Head(stream)
         IN  (IF m.type = "stroke_update" /\ m.payload.strokeId = id
              THEN m.payload.points ELSE <<>>)
             \o UpdatePoints(Tail(stream), id)

\* a is b with some of its elements left out
RECURSIVE Within(_, _)
Within(a, b) ==
    IF a = <<>> THEN TRUE
    ELSE IF b = <<>> THEN FALSE
    ELSE IF Head(a) = Head(b) THEN Within(Tail(a), Tail(b))
    ELSE Within(a, Tail(b))

\* C32: the batches of a stroke reach the server in the order in which they
\* were drawn, and on every stream the points of the stroke_update events of
\* that stroke follow each other in that order.
C32_BatchesArriveInDrawingOrder ==
    \A u \in Users, s \in DOMAIN sessions :
        client[u].currentStroke # NoStroke =>
            Within(UpdatePoints(sessions[s].stream, client[u].currentStroke.id),
                   Tail(client[u].currentStroke.points))

\* A member's undo that finds the operation log empty, or a member's redo that
\* finds the redo stack empty, when its handler reads the room
NothingToDo(n) ==
    /\ reqs[n].kind = "POST"
    /\ reqs[n].pc = "sent"
    /\ reqs[n].userId \in getRoom(reqs[n].roomId).users
    /\ \/ reqs[n].type = "undo" /\ getRoom(reqs[n].roomId).operations = <<>>
       \/ reqs[n].type = "redo" /\ getRoom(reqs[n].roomId).redoStack = <<>>

\* C33: the handler of an undo that finds the log empty, or of a redo that
\* finds the redo stack empty, returns in its first step, and that step leaves
\* the whole store (strokes, log, redo stack, users, cursors) and every stream
\* as they were.
C33_NothingToDoChangesNothing ==
    [][\A n \in DOMAIN reqs :
          (NothingToDo(n) /\ Steps(n))
              => /\ n \notin DOMAIN reqs'
                 /\ store' = store
                 /\ sessions' = sessions]_vars

\* The last request handled was a member's undo that found the log empty while
\* the room held strokes and a session was subscribed
C33_Witness ==
    /\ LastHandled.type = "undo"
    /\ LastHandled.status = 200
    /\ ~LastHandled.ok
    /\ After.operations = <<>>
    /\ After.strokes # <<>>
    /\ \E r \in Rooms : Subscribed(r) # {}

\* The event that client u handles next
NextEvent(u) == sessions[client[u].eventSource].stream[client[u].handled + 1]

\* C34: when a client handles a stroke_update event whose strokeId is not a key
\* of its activeStrokes, its hook state stays as it was (strokes, activeStrokes,
\* cursors, users, operations, canUndo, canRedo and the rest), and the event
\* counts as handled.
C34_UnknownStrokeUpdateIsNoOp ==
    [][\A u \in Users :
          (/\ client[u].eventSource \in DOMAIN sessions
           /\ client'[u].handled = client[u].handled + 1
           /\ NextEvent(u).type = "stroke_update"
           /\ NextEvent(u).payload.strokeId \notin DOMAIN client[u].activeStrokes)
              => client'[u] = [client[u] EXCEPT !.handled = @ + 1]]_vars

\* A client has handled a stroke_update of another member's stroke whose
\* stroke_start never reached it
C34_Witness ==
    \E u \in Users :
        /\ client[u].eventSource \in DOMAIN sessions
        /\ LET stream == sessions[client[u].eventSource].stream
           IN  \E i \in 1..client[u].handled :
                  /\ stream[i].type = "stroke_update"
                  /\ stream[i].userId # u
                  /\ \A j \in 1..i :
                        stream[j].type = "stroke_start"
                            => stream[j].payload.id # stream[i].payload.strokeId
                  /\ client[u].strokes # <<>>

\* C35: when a client that committed a stroke with endStroke handles the echoed
\* stroke_end event of that stroke, its strokes list then holds the stroke
\* exactly once.
C35_EchoedCommitAppearsOnce ==
    [][\A u \in Users :
          (/\ client[u].eventSource \in DOMAIN sessions
           /\ client'[u].handled = client[u].handled + 1
           /\ NextEvent(u).type = "stroke_end"
           /\ NextEvent(u).userId = u
           /\ NextEvent(u).payload.strokeId \in Ids(client[u].strokes))
              => Times(client'[u].strokes, NextEvent(u).payload.strokeId) = 1]_vars

\* The stored strokes of a room whose stroke_end has been handled to its end
Committed(roomId) ==
    {id \in Ids(Core(store[roomId]).strokes) :
        \A n \in DOMAIN reqs :
            reqs[n].type = "stroke_end" => reqs[n].payload.strokeId # id}

\* How many stroke_end events of a stream carry the stroke
EndEvents(stream, id) ==
    Cardinality({i \in 1..Len(stream) :
                    stream[i].type = "stroke_end" /\ stream[i].payload.strokeId = id})

\* C36: a session whose join is complete has every committed stroke of the
\* other members of its room exactly once, in the strokes of its sync_state or
\* as a later stroke_end event of its stream, also when the commit and the join
\* were handled at the same time.
C36_JoinerHoldsStrokeOnce ==
    \A s \in DOMAIN sessions :
        sessions[s].subscribed =>
            \A id \in Committed(sessions[s].roomId) :
                id[1] # sessions[s].userId =>
                    Times(Snapshot(s).strokes, id)
                        + EndEvents(sessions[s].stream, id) = 1

\* C37: the member of every open, subscribed session is among the users of the
\* stored room, so that the POST membership check lets its requests through.
C37_LiveSessionIsMember ==
    \A s \in DOMAIN sessions :
        (sessions[s].subscribed /\ sessions[s].open)
            => sessions[s].userId \in getRoom(sessions[s].roomId).users

Reverse(s) == [i \in 1..Len(s) |-> s[Len(s) + 1 - i]]

\* The operation log of a stored room followed by its redo stack from the top
History(data) == Core(data).operations \o Reverse(Core(data).redoStack)

\* C38: undo and redo only move operations between the tail of the log and the
\* top of the redo stack: the stored log followed by the reversed redo stack is
\* the same sequence of operations in every state, however many undo and redo
\* requests were handled and however their handlers interleaved.
C38_UndoRedoOnlyMoveOperations ==
    \A r \in JoinRooms :
        History(store[r]) = [i \in 1..MaxOps |-> OldOperation(i)]

\* Undo and redo events have both been published, and the stored room has
\* operations in its log and on its redo stack
C38_Witness ==
    \E r \in JoinRooms, s \in DOMAIN sessions :
        /\ \E i \in 1..Len(sessions[s].stream) : sessions[s].stream[i].type = "undo"
        /\ \E i \in 1..Len(sessions[s].stream) : sessions[s].stream[i].type = "redo"
        /\ Core(store[r]).operations # <<>>
        /\ Core(store[r]).redoStack # <<>>

\* C39: when nothing is in flight, every connected client's operations list is
\* the stored operation log of its room, its canUndo is true exactly when that
\* log is non-empty and its canRedo exactly when the stored redo stack is
\* non-empty (a flag that is undefined counts as false).
C39_ClientLogIsStoredLog ==
    Quiet =>
        \A u \in Users :
            Connected(u) =>
                LET room == getRoom(client[u].roomId)
                IN  /\ client[u].operations = room.operations
                    /\ (client[u].canUndo = "true") <=> Len(room.operations) > 0
                    /\ (client[u].canRedo = "true") <=> Len(room.redoStack) > 0

\* C40: where requests are handled one at a time and none of them removes
\* anything, no step takes a stroke, an operation or a member out of a stored
\* room, also when the read of the room fails: a failed read never makes a
\* handler write over what is stored.
C40_FailedReadOverwritesNothing ==
    [][\A r \in Rooms :
          /\ Range(getRoom(r).strokes) \subseteq Range(Core(store'[r]).strokes)
          /\ Range(getRoom(r).operations) \subseteq Range(Core(store'[r]).operations)
          /\ store'[r] # NoData => getRoom(r).users \subseteq store'[r].users]_vars

====
